---- MODULE Spec2Model ----
(***************************************************************************)
(* Model of the authenticated tool-gateway invocation pipeline:            *)
(*   - the Lambda tool dispatcher generated by create_lambda.py            *)
(*     (lambda_handler), and                                               *)
(*   - the agent runtime of runtime_agent.py (order_management_agent and   *)
(*     its inner process_with_gateway),                                    *)
(*   - the client of invoke_agentcore.py (invoke_agent_runtime), and       *)
(*   - the setup scripts that record their results in the .env file.       *)
(* Python str values are sequences of one-character strings, so that       *)
(* searching, slicing and formatting are computed, not assumed.            *)
(***************************************************************************)
EXTENDS Integers, Sequences, FiniteSets, TLC

VARIABLES
    raw_tool_id,  \* lambda_handler: the tool identifier the caller names
    event,        \* lambda_handler: the event of the invocation in progress
    context,      \* lambda_handler: its context object
    tool_name,    \* lambda_handler: the tool name at line 51
    response,     \* lambda_handler: what the invocation produced
    previous,     \* lambda_handler: what the same request produced before a replay
    invoked,      \* lambda_handler: whether an invocation has happened
    replayed,     \* lambda_handler: whether the same request was sent again
    pc,           \* agent run: where order_management_agent stands
    tools,        \* agent run: the tool names list_tools_sync returned
    script,       \* agent run: how many tool calls the model asks for (Forever: no end)
    requested,    \* agent run: tool calls the model has asked for so far
    pending,      \* agent run: tool calls of the current model turn not yet routed
    toolCalls,    \* agent run: tool invocations issued through the MCP client
    lastToolStatus, \* agent run: status of the latest tool result given to the model
    modelInvoked, \* agent run: whether the model has been invoked
    finalMessage, \* agent run: the model's final message
    result,       \* agent run: the string returned to the caller
    tokenFetches, \* agent run: credentials asked of requires_access_token
    staleToken,   \* agent run: the gateway has rejected the run's token (401/403)
    cpc,          \* client: where invoke_agent_runtime stands
    contentType,  \* client: the contentType of the response
    stream,       \* client: the lines or chunks of the body not read yet
    received,     \* client: the lines or chunks of the body, as they arrive
    content,      \* client: the list `content`
    clientResult, \* client: what invoke_agent_runtime returned or raised
    printed,      \* client: what it printed
    env,          \* setup: the .env file, key -> value (0: the key is not there)
    gateways,     \* setup: the gateways created, each with whether its target exists
    resources,    \* setup: the other remote resources created
    lastRun,      \* setup: the script that ran last, and how it ended
    provider_response \* setup: what create_oauth2_credential_provider returned last

dispatcherVars ==
    <<raw_tool_id, event, context, tool_name, response, previous, invoked, replayed>>
agentVars ==
    <<pc, tools, script, requested, pending, toolCalls, lastToolStatus, modelInvoked,
      finalMessage, result, tokenFetches, staleToken>>
clientVars == <<cpc, contentType, stream, received, content, clientResult, printed>>
setupVars == <<env, gateways, resources, lastRun, provider_response>>
vars == <<dispatcherVars, agentVars, clientVars, setupVars>>

----------------------------------------------------------------------------
(* Bounds of the model.                                                    *)

\* Longest generated raw tool identifier (over the alphabet IdAlphabet).
MaxIdLen == 5

----------------------------------------------------------------------------
(* Python values.  Every scalar has the same record shape.                 *)

PyNone == [t |-> "none", s |-> <<>>, n |-> 0]
PyStr(chars) == [t |-> "str", s |-> chars, n |-> 0]
PyInt(k) == [t |-> "int", s |-> <<>>, n |-> k]

RECURSIVE Digits(_)
Digits(k) ==
    IF k < 10 THEN <<(<<"0", "1", "2", "3", "4", "5", "6", "7", "8", "9">>)[k + 1]>>
    ELSE Digits(k \div 10) \o Digits(k % 10)

\* str(v), as an f-string placeholder formats v.
Format(v) ==
    CASE v.t = "str" -> v.s
      [] v.t = "none" -> <<"N", "o", "n", "e">>
      [] v.t = "int" -> Digits(v.n)

----------------------------------------------------------------------------
(* String literals of create_lambda.py.                                    *)

delimiter == <<"_", "_", "_">>
get_order_tool == <<"g", "e", "t", "_", "o", "r", "d", "e", "r", "_", "t", "o", "o", "l">>
update_order_tool ==
    <<"u", "p", "d", "a", "t", "e", "_", "o", "r", "d", "e", "r", "_", "t", "o", "o", "l">>
UnknownLit == <<"u", "n", "k", "n", "o", "w", "n">>
UnknownToolLit == <<"U", "n", "k", "n", "o", "w", "n", " ", "t", "o", "o", "l", ":", " ">>
OrderLit == <<"O", "r", "d", "e", "r", " ">>
UpdatedLit ==
    <<" ", "h", "a", "s", " ", "b", "e", "e", "n", " ", "u", "p", "d", "a", "t", "e", "d",
      " ", "s", "u", "c", "c", "e", "s", "s", "f", "u", "l", "l", "y">>
KeyOrderId == <<"o", "r", "d", "e", "r", "I", "d">>
KeyStatus == <<"s", "t", "a", "t", "u", "s">>
KeyItems == <<"i", "t", "e", "m", "s">>
KeyName == <<"n", "a", "m", "e">>
KeyQuantity == <<"q", "u", "a", "n", "t", "i", "t", "y">>
KeyTotal == <<"t", "o", "t", "a", "l">>
KeyMessage == <<"m", "e", "s", "s", "a", "g", "e">>
KeyError == <<"e", "r", "r", "o", "r">>
ProcessingLit == <<"p", "r", "o", "c", "e", "s", "s", "i", "n", "g">>
UpdatedStatusLit == <<"u", "p", "d", "a", "t", "e", "d">>
\* json.dumps escapes non-ASCII characters (ensure_ascii), so the item names
\* reach the body as \uXXXX escapes followed by the ASCII letter.
ItemALit == <<"\\u5546", "\\u54c1", "A">>
ItemBLit == <<"\\u5546", "\\u54c1", "B">>

----------------------------------------------------------------------------
(* json.dumps: the JSON text as its sequence of lexical tokens.            *)

Tok(kind) == [k |-> kind, s |-> <<>>, n |-> 0]
StrTok(chars) == [k |-> "str", s |-> chars, n |-> 0]
IntTok(v) == [k |-> "int", s |-> <<>>, n |-> v]

JObj(members) == [t |-> "obj", members |-> members]
JList(items) == [t |-> "list", items |-> items]
Member(key, val) == [key |-> key, val |-> val]

RECURSIVE json_dumps(_)
RECURSIVE DumpMembers(_, _)
RECURSIVE DumpItems(_, _)
json_dumps(v) ==
    CASE v.t = "str" -> <<StrTok(v.s)>>
      [] v.t = "int" -> <<IntTok(v.n)>>
      [] v.t = "none" -> <<Tok("null")>>
      [] v.t = "obj" -> <<Tok("{")>> \o DumpMembers(v.members, 1) \o <<Tok("}")>>
      [] v.t = "list" -> <<Tok("[")>> \o DumpItems(v.items, 1) \o <<Tok("]")>>
DumpMembers(ms, i) ==
    IF i > Len(ms) THEN <<>>
    ELSE (IF i > 1 THEN <<Tok(",")>> ELSE <<>>)
         \o <<StrTok(ms[i].key), Tok(":")>> \o json_dumps(ms[i].val)
         \o DumpMembers(ms, i + 1)
DumpItems(xs, i) ==
    IF i > Len(xs) THEN <<>>
    ELSE (IF i > 1 THEN <<Tok(",")>> ELSE <<>>) \o json_dumps(xs[i]) \o DumpItems(xs, i + 1)

----------------------------------------------------------------------------
(* lambda_handler, lines 31-49: the tool name from context.client_context. *)

\* `delimiter in tool_name` for a str.
Contains(s, d) == \E i \in 1..(Len(s) - Len(d) + 1) : SubSeq(s, i, i + Len(d) - 1) = d

\* tool_name.index(delimiter): the 0-based position of the first occurrence.
Index(s, d) ==
    (CHOOSE i \in 1..(Len(s) - Len(d) + 1) :
        /\ SubSeq(s, i, i + Len(d) - 1) = d
        /\ \A j \in 1..(i - 1) : SubSeq(s, j, j + Len(d) - 1) # d) - 1

\* s[k:] with a 0-based k >= 0.
SliceFrom(s, k) == SubSeq(s, k + 1, Len(s))

\* A mutant: the prefix is cut at the LAST occurrence (rindex).
StripPrefixLast(s) ==
    IF Contains(s, delimiter)
    THEN LET last == CHOOSE i \in 1..(Len(s) - 2) :
                        /\ SubSeq(s, i, i + 2) = delimiter
                        /\ \A j \in (i + 1)..(Len(s) - 2) : SubSeq(s, j, j + 2) # delimiter
         IN SliceFrom(s, last - 1 + Len(delimiter))
    ELSE s

\* A mutant: find() without the membership test, so an absent delimiter
\* (find = -1) still cuts the string at -1 + len(delimiter).
StripPrefixFind(s) ==
    IF Contains(s, delimiter)
    THEN SliceFrom(s, Index(s, delimiter) + Len(delimiter))
    ELSE SliceFrom(s, IF Len(s) < 2 THEN Len(s) ELSE 2)

\* Lines 40-42: remove the gateway target prefix.
StripPrefix(s) ==
    IF Contains(s, delimiter)
    THEN SliceFrom(s, Index(s, delimiter) + Len(delimiter))
    ELSE s

\* The context object of an invocation: cc tells what context.client_context
\* is, name is custom['bedrockAgentCoreToolName'] when there is one.
Context(cc, name) == [cc |-> cc, name |-> name]

\* A mutant: without a client context the function falls back to a default
\* tool instead of leaving the name unset.
ResolveToolNameDefault(ctx) ==
    CASE ctx.cc \in {"absent", "falsy"} -> PyStr(get_order_tool)
      [] ctx.cc \in {"no_custom", "custom_none", "no_key"} -> PyNone
      [] ctx.cc = "custom" ->
            IF ctx.name.t = "str" THEN PyStr(StripPrefix(ctx.name.s))
            ELSE PyNone

\* Lines 32-49: the tool name, None when there is no client context or when
\* reading it raised AttributeError, KeyError or TypeError.
ResolveToolName(ctx) ==
    CASE ctx.cc \in {"absent", "falsy"} -> PyNone          \* line 46
      [] ctx.cc \in {"no_custom", "custom_none", "no_key"} -> PyNone   \* lines 47-49
      [] ctx.cc = "custom" ->
            IF ctx.name.t = "str" THEN PyStr(StripPrefix(ctx.name.s))
            ELSE PyNone      \* `delimiter in tool_name` raises TypeError

----------------------------------------------------------------------------
(* lambda_handler, lines 51-89: the branches.                              *)

Return(status, body, ran) ==
    [kind |-> "return", statusCode |-> status, body |-> body, exc |-> "", executed |-> ran]
Raise(exc, ran) ==
    [kind |-> "raise", statusCode |-> 0, body |-> <<>>, exc |-> exc, executed |-> ran]

Event(t, has, orderId) == [t |-> t, has |-> has, orderId |-> orderId]

\* event.get('orderId', 'unknown') on a dict.
GetOrderId(ev) == IF ev.has THEN ev.orderId ELSE PyStr(UnknownLit)

\* A mutant: the order is looked up under a fixed id.
GetOrderBranchFixedId(ev) ==
    IF ev.t # "dict" THEN Raise("AttributeError", <<"get_order_tool">>)
    ELSE Return(200,
                json_dumps(JObj(<<
                    Member(KeyOrderId, PyStr(<<"1", "2", "3">>)),
                    Member(KeyStatus, PyStr(ProcessingLit)),
                    Member(KeyItems, JList(<<>>)),
                    Member(KeyTotal, PyInt(5000))>>)),
                <<"get_order_tool">>)

\* Lines 52-67.  event.get raises AttributeError when the event is no dict.
GetOrderBranch(ev) ==
    IF ev.t # "dict" THEN Raise("AttributeError", <<"get_order_tool">>)
    ELSE Return(200,
                json_dumps(JObj(<<
                    Member(KeyOrderId, GetOrderId(ev)),
                    Member(KeyStatus, PyStr(ProcessingLit)),
                    Member(KeyItems, JList(<<
                        JObj(<<Member(KeyName, PyStr(ItemALit)),
                               Member(KeyQuantity, PyInt(2))>>),
                        JObj(<<Member(KeyName, PyStr(ItemBLit)),
                               Member(KeyQuantity, PyInt(1))>>)>>)),
                    Member(KeyTotal, PyInt(5000))>>)),
                <<"get_order_tool">>)

\* Lines 69-80.
UpdateOrderBranch(ev) ==
    IF ev.t # "dict" THEN Raise("AttributeError", <<"update_order_tool">>)
    ELSE Return(200,
                json_dumps(JObj(<<
                    Member(KeyOrderId, GetOrderId(ev)),
                    Member(KeyStatus, PyStr(UpdatedStatusLit)),
                    Member(KeyMessage,
                           PyStr(OrderLit \o Format(GetOrderId(ev)) \o UpdatedLit))>>)),
                <<"update_order_tool">>)

\* A mutant: the unknown-tool answer is sent as a success.
UnknownToolBranchOk(name) ==
    Return(200,
           json_dumps(JObj(<<Member(KeyError, PyStr(UnknownToolLit \o Format(name)))>>)),
           <<>>)

\* Lines 82-89.
UnknownToolBranch(name) ==
    Return(400,
           json_dumps(JObj(<<Member(KeyError, PyStr(UnknownToolLit \o Format(name)))>>)),
           <<>>)

\* A mutant: a second `if` instead of `elif`, with the first result kept in a
\* variable, so a request can run a handler after another one has run.
DispatchFallThrough(name, ev) ==
    LET first == GetOrderBranch(ev)
        second == UpdateOrderBranch(ev)
    IN IF name = PyStr(get_order_tool)
       THEN [second EXCEPT !.executed = first.executed \o second.executed]
       ELSE IF name = PyStr(update_order_tool) THEN second
       ELSE UnknownToolBranch(name)

\* Lines 51-89: if / elif / else on the tool name.
Dispatch(name, ev) ==
    IF name = PyStr(get_order_tool) THEN GetOrderBranch(ev)
    ELSE IF name = PyStr(update_order_tool) THEN UpdateOrderBranch(ev)
    ELSE UnknownToolBranch(name)

\* Lines 25-89.
lambda_handler(ev, ctx) == Dispatch(ResolveToolName(ctx), ev)

----------------------------------------------------------------------------
(* The requests the dispatcher is driven with.                             *)

IdAlphabet == {"_", "a"}

RECURSIVE StringsOfLen(_)
StringsOfLen(k) ==
    IF k = 0 THEN {<<>>}
    ELSE {Append(s, c) : s \in StringsOfLen(k - 1), c \in IdAlphabet}

GeneratedIds == UNION {StringsOfLen(k) : k \in 0..MaxIdLen}

\* The name of the gateway target, which the gateway puts before the tool name.
TargetPrefix ==
    <<"o", "r", "d", "e", "r", "-", "l", "a", "m", "b", "d", "a", "-",
      "t", "a", "r", "g", "e", "t">>

Prefixes ==
    {TargetPrefix,
     <<"o", "r", "d", "e", "r", "L", "a", "m", "b", "d", "a", "T", "a", "r", "g", "e", "t">>,
     <<"a">>, <<"a", "_">>, <<"a", "_", "_", "_", "b">>}

\* A mutant: the gateway declares a tool the function has no branch for.
tool_schemas_unhandled == {get_order_tool, update_order_tool, <<"c">>}

\* The names of the tool schemas the gateway target declares.
tool_schemas == {get_order_tool, update_order_tool}

RoutedIds ==
    {p \o delimiter \o name :
        p \in Prefixes, name \in tool_schemas \cup {<<"c">>}}

RawToolIds == GeneratedIds \cup RoutedIds \cup {get_order_tool, update_order_tool}

OrderIds == {PyStr(<<"1", "2", "3">>), PyStr(<<"4", "5">>), PyInt(123), PyNone}

Events ==
    {Event("dict", TRUE, id) : id \in OrderIds}
    \cup {Event("dict", FALSE, PyNone)}
    \cup {Event(t, FALSE, PyNone) : t \in {"list", "str", "null"}}

\* How an invocation reaches the function.  "gateway": the gateway puts the
\* tool identifier into client_context.custom.  "direct": a direct invocation,
\* the context has no client_context.  "empty": client_context is falsy.
\* "no_custom", "custom_none", "no_key": a client context whose custom
\* attribute is missing, is None, or lacks bedrockAgentCoreToolName.
\* "non_str": the entry is there and is no str.
Paths == {"gateway", "direct", "empty", "no_custom", "custom_none", "no_key", "non_str"}

\* The context object the function receives for tool identifier raw.
ContextOf(path, raw) ==
    CASE path = "gateway" -> Context("custom", PyStr(raw))
      [] path = "direct" -> Context("absent", PyNone)
      [] path = "empty" -> Context("falsy", PyNone)
      [] path = "non_str" -> Context("custom", PyInt(7))
      [] OTHER -> Context(path, PyNone)

\* Identifiers named by callers that do not come through the gateway.
DirectIds == {get_order_tool, update_order_tool, <<"a">>}

----------------------------------------------------------------------------
(* The dispatcher as a state machine.                                      *)

NoResponse == Return(0, <<>>, <<>>)

DispatcherInit ==
    /\ raw_tool_id = <<>>
    /\ event = Event("null", FALSE, PyNone)
    /\ context = Context("absent", PyNone)
    /\ tool_name = PyNone
    /\ response = NoResponse
    /\ previous = NoResponse
    /\ invoked = FALSE
    /\ replayed = FALSE

\* One invocation of the Lambda function, lines 25-89.
Invoke(ev, path, raw) ==
    /\ raw_tool_id' = raw
    /\ event' = ev
    /\ context' = ContextOf(path, raw)
    /\ tool_name' = ResolveToolName(ContextOf(path, raw))
    /\ response' = lambda_handler(ev, ContextOf(path, raw))
    /\ previous' = NoResponse
    /\ invoked' = TRUE
    /\ replayed' = FALSE
    /\ UNCHANGED <<agentVars, clientVars, setupVars>>

\* The same request sent a second time: the function is invoked again.
Replay ==
    /\ invoked
    /\ previous' = response
    /\ tool_name' = ResolveToolName(context)
    /\ response' = lambda_handler(event, context)
    /\ replayed' = TRUE
    /\ UNCHANGED <<raw_tool_id, event, context, invoked>>
    /\ UNCHANGED <<agentVars, clientVars, setupVars>>

DispatcherNext ==
    \/ \E ev \in Events, raw \in RawToolIds : Invoke(ev, "gateway", raw)
    \/ \E ev \in Events, path \in Paths \ {"gateway"}, raw \in DirectIds :
          Invoke(ev, path, raw)
    \/ Replay

----------------------------------------------------------------------------
(* runtime_agent.py: one run of order_management_agent.                    *)

\* Most tool calls a scripted model asks for in one run.
MaxToolCalls == 3
\* Most tool calls the model asks for in one turn.
MaxBatch == 2

\* The script of a model that never stops asking for tools.
Forever == 0 - 1

\* Counters of an endless run stay finite: CallCap stands for "more than
\* MaxToolCalls".
CallCap == MaxToolCalls + 1
Sat(k) == IF k > CallCap THEN CallCap ELSE k

\* The tools the gateway target declares (create_gateway.py, tool_schemas).
DeclaredTools == {"get_order_tool", "update_order_tool"}

\* The strings order_management_agent returns.  prefix names the literal the
\* text follows: "" for the model's answer, "ERROR_OCCURRED" for line 80,
\* "AUTH_FAILED" for line 87.
Returned(prefix, text) == [prefix |-> prefix, text |-> text]
NoResult == Returned("", "")

FinalAnswers == {"answer-1", "answer-2"}

\* The final message of the model: the kinds of its content blocks, and the
\* text of its text blocks.
Message(blocks, text) == [blocks |-> blocks, text |-> text]
NoMessage == Message(<<>>, "")
FinalMessages ==
    {Message(b, t) : b \in {<<"text">>, <<"text", "text">>}, t \in FinalAnswers}
    \cup {Message(<<>>, ""), Message(<<"reasoningContent", "text">>, "answer-1")}

AgentInit ==
    /\ pc = "INIT"
    /\ tools = {}
    /\ script = 0
    /\ requested = 0
    /\ pending = 0
    /\ toolCalls = 0
    /\ lastToolStatus = "none"
    /\ modelInvoked = FALSE
    /\ finalMessage = NoMessage
    /\ result = NoResult
    /\ tokenFetches = 0
    /\ staleToken = FALSE

Fail(prefix, text) ==
    /\ pc' = "FAILED"
    /\ result' = Returned(prefix, text)

\* Lines 26-32 and 82-87: requires_access_token obtains the token and calls
\* process_with_gateway with it, or raises, and line 87 returns.
Authenticate ==
    /\ pc = "INIT"
    /\ \/ /\ pc' = "AUTHENTICATED"
          /\ UNCHANGED result
       \/ Fail("AUTH_FAILED", "token")
    /\ tokenFetches' = tokenFetches + 1
    /\ UNCHANGED <<tools, script, requested, pending, toolCalls, lastToolStatus,
                   modelInvoked, finalMessage, staleToken>>
    /\ UNCHANGED <<dispatcherVars, clientVars, setupVars>>

\* A mutant: the session is opened without waiting for the credential.
ConnectBeforeAuth ==
    /\ pc \in {"INIT", "AUTHENTICATED"}
    /\ \/ /\ pc' = "CONNECTED"
          /\ UNCHANGED <<result, staleToken>>
       \/ /\ Fail("ERROR_OCCURRED", "connect")
          /\ UNCHANGED staleToken
       \/ /\ Fail("ERROR_OCCURRED", "unauthorized")
          /\ staleToken' = TRUE
    /\ UNCHANGED <<tools, script, requested, pending, toolCalls, lastToolStatus,
                   modelInvoked, finalMessage, tokenFetches>>
    /\ UNCHANGED <<dispatcherVars, clientVars, setupVars>>

\* Lines 45-49: the MCP client is made and `with client:` starts the session;
\* a failure to connect, a 401/403 of the gateway included, is caught at
\* line 78: the token is not asked for again and nothing is retried.
Connect ==
    /\ pc = "AUTHENTICATED"
    /\ \/ /\ pc' = "CONNECTED"
          /\ UNCHANGED <<result, staleToken>>
       \/ /\ Fail("ERROR_OCCURRED", "connect")
          /\ UNCHANGED staleToken
       \/ /\ Fail("ERROR_OCCURRED", "unauthorized")
          /\ staleToken' = TRUE
    /\ UNCHANGED <<tools, script, requested, pending, toolCalls, lastToolStatus,
                   modelInvoked, finalMessage, tokenFetches>>
    /\ UNCHANGED <<dispatcherVars, clientVars, setupVars>>

\* Lines 51-52: list_tools_sync returns the gateway's tools, none included,
\* or raises.
ListTools ==
    /\ pc = "CONNECTED"
    /\ \/ \E found \in SUBSET DeclaredTools :
            /\ tools' = found
            /\ pc' = "TOOLS_DISCOVERED"
            /\ UNCHANGED result
       \/ /\ Fail("ERROR_OCCURRED", "discovery")
          /\ UNCHANGED tools
    /\ UNCHANGED <<script, requested, pending, toolCalls, lastToolStatus,
                   modelInvoked, finalMessage, tokenFetches, staleToken>>
    /\ UNCHANGED <<dispatcherVars, clientVars, setupVars>>

\* The scripts a model can follow once it is given `found` as its tools: it
\* can ask for a tool only when it was offered one.
Scripts(found) == IF found = {} THEN {0} ELSE (0..MaxToolCalls) \cup {Forever}

\* Lines 55-73: the model and the Agent are constructed with whatever tools
\* were listed, and the agent is called with the user input; an exception of
\* the construction is caught at line 78.
StartAgent ==
    /\ pc = "TOOLS_DISCOVERED"
    /\ \/ /\ pc' = "RESPONDING"
          /\ \E sc \in Scripts(tools) : script' = sc
          /\ UNCHANGED result
       \/ /\ Fail("ERROR_OCCURRED", "agent_init")
          /\ UNCHANGED script
    /\ UNCHANGED <<tools, requested, pending, toolCalls, lastToolStatus, modelInvoked,
                   finalMessage, tokenFetches, staleToken>>
    /\ UNCHANGED <<dispatcherVars, clientVars, setupVars>>

WantsTool == script = Forever \/ requested < script

\* Line 73, a turn of the agent's loop in which the model asks for tools.
ModelRequestsTools ==
    /\ pc = "RESPONDING"
    /\ pending = 0
    /\ WantsTool
    /\ \E k \in 1..MaxBatch :
          /\ script = Forever \/ requested + k <= script
          /\ pending' = k
          /\ requested' = Sat(requested + k)
    /\ modelInvoked' = TRUE
    /\ UNCHANGED <<pc, tools, script, toolCalls, lastToolStatus, finalMessage, result,
                   tokenFetches, staleToken>>
    /\ UNCHANGED <<dispatcherVars, clientVars, setupVars>>

ToolChars(t) == IF t = "get_order_tool" THEN get_order_tool ELSE update_order_tool

\* The arguments a model sends with a tool call.
ToolCallEvents ==
    {Event("dict", TRUE, PyStr(<<"1", "2", "3">>)), Event("dict", FALSE, PyNone),
     Event("list", FALSE, PyNone)}

\* How a tool call can go.  "routed": the gateway invokes the function with
\* the tool identifier in the client context.  "no_key": it invokes it with a
\* client context that lacks the identifier.  "unauthorized": the gateway
\* answers 401/403.  "transport": the call does not get through.
ToolCallRoutes == {"routed", "no_key", "unauthorized", "transport"}

\* The status of the tool result the model is given.  An exception of the
\* function reaches the model as an error result, a 400 envelope as the
\* envelope itself.
ToolStatus(route, t, ev) ==
    IF route \in {"unauthorized", "transport"} THEN route
    ELSE LET r == lambda_handler(
                      ev,
                      ContextOf(IF route = "routed" THEN "gateway" ELSE "no_key",
                                TargetPrefix \o delimiter \o ToolChars(t)))
         IN IF r.kind = "raise" THEN "handler_error"
            ELSE IF r.statusCode = 400 THEN "unknown_tool"
            ELSE "success"

\* A mutant: a call that came back as an error is issued a second time.
ToolCallRetried ==
    /\ pc = "RESPONDING"
    /\ pending > 0
    /\ pending' = pending - 1
    /\ \E route \in ToolCallRoutes, t \in tools, ev \in ToolCallEvents :
          /\ lastToolStatus' = ToolStatus(route, t, ev)
          /\ toolCalls' =
                Sat(toolCalls + (IF ToolStatus(route, t, ev) = "success" THEN 1 ELSE 2))
          /\ staleToken' = (staleToken \/ route = "unauthorized")
    /\ UNCHANGED <<pc, tools, script, requested, modelInvoked, finalMessage, result,
                   tokenFetches>>
    /\ UNCHANGED <<dispatcherVars, clientVars, setupVars>>

\* A mutant: a tool result that is an error ends the run.
ToolCallAborting ==
    /\ pc = "RESPONDING"
    /\ pending > 0
    /\ pending' = pending - 1
    /\ toolCalls' = Sat(toolCalls + 1)
    /\ \E route \in ToolCallRoutes, t \in tools, ev \in ToolCallEvents :
          /\ lastToolStatus' = ToolStatus(route, t, ev)
          /\ staleToken' = (staleToken \/ route = "unauthorized")
          /\ IF ToolStatus(route, t, ev) = "success"
             THEN UNCHANGED <<pc, result>>
             ELSE Fail("ERROR_OCCURRED", ToolStatus(route, t, ev))
    /\ UNCHANGED <<tools, script, requested, modelInvoked, finalMessage, tokenFetches>>
    /\ UNCHANGED <<dispatcherVars, clientVars, setupVars>>

\* Line 73, a tool call of the current turn routed through the MCP client to
\* the gateway and the function.  Whatever comes back, a failure included,
\* is given to the model as the tool's result, and the loop goes on with the
\* token it has.
ToolCall ==
    /\ pc = "RESPONDING"
    /\ pending > 0
    /\ pending' = pending - 1
    /\ toolCalls' = Sat(toolCalls + 1)
    /\ \E route \in ToolCallRoutes, t \in tools, ev \in ToolCallEvents :
          /\ lastToolStatus' = ToolStatus(route, t, ev)
          /\ staleToken' = (staleToken \/ route = "unauthorized")
    /\ UNCHANGED <<pc, tools, script, requested, modelInvoked, finalMessage, result,
                   tokenFetches>>
    /\ UNCHANGED <<dispatcherVars, clientVars, setupVars>>

\* Line 74: response.message['content'][0]['text'].
ExtractText(msg) ==
    IF Len(msg.blocks) = 0 THEN [ok |-> FALSE, text |-> "IndexError"]
    ELSE IF msg.blocks[1] # "text" THEN [ok |-> FALSE, text |-> "KeyError"]
    ELSE [ok |-> TRUE, text |-> msg.text]

\* Lines 73-80, the last turn: the model answers without asking for a tool,
\* the text of the first content block is returned, and an exception of the
\* extraction is caught at line 78.
ModelAnswers ==
    /\ pc = "RESPONDING"
    /\ pending = 0
    /\ ~WantsTool
    /\ \E msg \in FinalMessages :
          /\ finalMessage' = msg
          /\ IF ExtractText(msg).ok
             THEN /\ pc' = "DONE"
                  /\ result' = Returned("", ExtractText(msg).text)
             ELSE Fail("ERROR_OCCURRED", ExtractText(msg).text)
    /\ modelInvoked' = TRUE
    /\ UNCHANGED <<tools, script, requested, pending, toolCalls, lastToolStatus,
                   tokenFetches, staleToken>>
    /\ UNCHANGED <<dispatcherVars, clientVars, setupVars>>

\* Lines 73 and 78-80: the model call raises inside the agent's loop.
ModelFails ==
    /\ pc = "RESPONDING"
    /\ pending = 0
    /\ Fail("ERROR_OCCURRED", "model")
    /\ modelInvoked' = TRUE
    /\ UNCHANGED <<tools, script, requested, pending, toolCalls, lastToolStatus,
                   finalMessage, tokenFetches, staleToken>>
    /\ UNCHANGED <<dispatcherVars, clientVars, setupVars>>

AgentNext ==
    \/ Authenticate
    \/ Connect
    \/ ListTools
    \/ StartAgent
    \/ ModelRequestsTools
    \/ ToolCall
    \/ ModelAnswers
    \/ ModelFails

----------------------------------------------------------------------------
(* invoke_agent_runtime of invoke_agentcore.py.  A body is a sequence of   *)
(* bytes: an ASCII byte is written as its character, and "C3", "A9" are    *)
(* the two bytes that encode U+00E9 in UTF-8.                              *)

\* Most lines of an event-stream body, and the largest size of a chunk.
MaxLines == 3
MaxChunkSize == 3

Quote == "\""
DataPrefix == <<"d", "a", "t", "a", ":", " ">>

\* bytes.decode('utf-8') does not raise: every lead byte is followed by its
\* continuation byte and every continuation byte follows a lead byte.
Decodable(bs) ==
    \A i \in 1..Len(bs) :
        /\ bs[i] = "C3" => (i < Len(bs) /\ bs[i + 1] = "A9")
        /\ bs[i] = "A9" => (i > 1 /\ bs[i - 1] = "C3")

\* bytes.decode('utf-8') of decodable bytes: the characters.
RECURSIVE DecodeChars(_)
DecodeChars(bs) ==
    IF bs = <<>> THEN <<>>
    ELSE IF bs[1] = "C3" THEN <<"U+00E9">> \o DecodeChars(SubSeq(bs, 3, Len(bs)))
    ELSE <<bs[1]>> \o DecodeChars(Tail(bs))

\* line.startswith(p)
StartsWith(s, p) == Len(s) >= Len(p) /\ SubSeq(s, 1, Len(p)) = p

\* '\n'.join(list)
RECURSIVE Join(_)
Join(list) ==
    IF list = <<>> THEN <<>>
    ELSE IF Len(list) = 1 THEN list[1]
    ELSE list[1] \o <<"\n">> \o Join(Tail(list))

\* ''.join(list)
RECURSIVE Concat(_)
Concat(list) == IF list = <<>> THEN <<>> ELSE list[1] \o Concat(Tail(list))

\* json.loads of a document that is one string without escapes, the kind of
\* document the bodies below hold; anything else here is not a document.
json_loads(chars) ==
    IF /\ Len(chars) >= 2
       /\ chars[1] = Quote
       /\ chars[Len(chars)] = Quote
       /\ \A i \in 2..(Len(chars) - 1) : chars[i] # Quote
    THEN [ok |-> TRUE, value |-> SubSeq(chars, 2, Len(chars) - 1)]
    ELSE [ok |-> FALSE, value |-> <<>>]

ClientResult(kind, value) == [kind |-> kind, value |-> value]
NoClientResult == ClientResult("pending", <<>>)
Printed(tag, text) == [tag |-> tag, text |-> text]

ClientInit ==
    /\ cpc = "IDLE"
    /\ contentType = ""
    /\ stream = <<>>
    /\ received = <<>>
    /\ content = <<>>
    /\ clientResult = NoClientResult
    /\ printed = <<>>

\* A mutant: the except block returns None and prints nothing.
ExceptSilent(exc) ==
    /\ clientResult' = ClientResult("None", <<>>)
    /\ cpc' = "RETURNED"
    /\ UNCHANGED printed

\* Lines 75-85: the exception's type and message are printed, its error code
\* and message too when it carries a response, and None is returned.
Except(exc) ==
    /\ printed' =
          printed \o <<Printed("ERROR_OCCURRED", <<exc>>)>> \o
              (IF exc = "ClientError"
               THEN <<Printed("ERROR_CODE", <<exc>>), Printed("ERROR_MESSAGE", <<exc>>)>>
               ELSE <<>>)
    /\ clientResult' = ClientResult("None", <<>>)
    /\ cpc' = "RETURNED"

\* Lines 26-52, 64 and 71-73: the runtime ARN is looked up and the runtime is
\* invoked.  "no_arn": RUNTIME_ARN is not set and line 30 raises, outside the
\* try.  "client_error": the invocation raises.  "response": it answers with
\* a body of content type ct that arrives as frames.
InvokeReturns(outcome, ct, frames) ==
    /\ cpc = "IDLE"
    /\ CASE outcome = "no_arn" ->
              /\ cpc' = "RETURNED"
              /\ clientResult' = ClientResult("raise", <<"ValueError">>)
              /\ UNCHANGED <<contentType, stream, received, printed>>
         [] outcome = "client_error" ->
              /\ Except("ClientError")
              /\ UNCHANGED <<contentType, stream, received>>
         [] outcome = "response" ->
              /\ contentType' = ct
              /\ stream' = frames
              /\ received' = frames
              /\ UNCHANGED printed
              /\ IF ct = "text/event-stream"
                 THEN cpc' = "READING_LINES" /\ UNCHANGED clientResult
                 ELSE IF ct = "application/json"
                 THEN cpc' = "READING_CHUNKS" /\ UNCHANGED clientResult
                 ELSE cpc' = "RETURNED" /\ clientResult' = ClientResult("response", <<>>)
    /\ UNCHANGED content
    /\ UNCHANGED <<dispatcherVars, agentVars, setupVars>>

\* Lines 55-61, one turn of the loop over iter_lines: an empty line is
\* skipped, the line is decoded, and the payload of a `data: ` line is
\* printed and appended.
ReadLine ==
    /\ cpc = "READING_LINES"
    /\ stream # <<>>
    /\ stream' = Tail(stream)
    /\ IF Head(stream) = <<>>
       THEN UNCHANGED <<cpc, content, clientResult, printed>>
       ELSE IF ~Decodable(Head(stream))
       THEN Except("UnicodeDecodeError") /\ UNCHANGED content
       ELSE IF StartsWith(DecodeChars(Head(stream)), DataPrefix)
       THEN /\ content' = Append(content, SliceFrom(DecodeChars(Head(stream)), 6))
            /\ printed' =
                  Append(printed,
                         Printed("STREAMING", SliceFrom(DecodeChars(Head(stream)), 6)))
            /\ UNCHANGED <<cpc, clientResult>>
       ELSE UNCHANGED <<cpc, content, clientResult, printed>>
    /\ UNCHANGED <<contentType, received>>
    /\ UNCHANGED <<dispatcherVars, agentVars, setupVars>>

\* Line 62: the last line was read and the payloads are joined.
EndLines ==
    /\ cpc = "READING_LINES"
    /\ stream = <<>>
    /\ cpc' = "RETURNED"
    /\ clientResult' = ClientResult("str", Join(content))
    /\ UNCHANGED <<contentType, stream, received, content, printed>>
    /\ UNCHANGED <<dispatcherVars, agentVars, setupVars>>

\* Lines 67-68, one turn of the loop over the body: the chunk is decoded on
\* its own and appended.
ReadChunk ==
    /\ cpc = "READING_CHUNKS"
    /\ stream # <<>>
    /\ stream' = Tail(stream)
    /\ IF Decodable(Head(stream))
       THEN /\ content' = Append(content, DecodeChars(Head(stream)))
            /\ UNCHANGED <<cpc, clientResult, printed>>
       ELSE Except("UnicodeDecodeError") /\ UNCHANGED content
    /\ UNCHANGED <<contentType, received>>
    /\ UNCHANGED <<dispatcherVars, agentVars, setupVars>>

\* Line 69: the last chunk was read; the decoded chunks are joined and parsed.
EndChunks ==
    /\ cpc = "READING_CHUNKS"
    /\ stream = <<>>
    /\ IF json_loads(Concat(content)).ok
       THEN /\ cpc' = "RETURNED"
            /\ clientResult' = ClientResult("json", json_loads(Concat(content)).value)
            /\ UNCHANGED printed
       ELSE Except("JSONDecodeError")
    /\ UNCHANGED <<contentType, stream, received, content>>
    /\ UNCHANGED <<dispatcherVars, agentVars, setupVars>>

\* The lines iter_lines can yield.
StreamLines ==
    {<<>>, DataPrefix, DataPrefix \o <<"a">>, DataPrefix \o <<"C3", "A9">>,
     <<"d", "a", "t", "a", ":", "a">>, <<"e", "v", "e", "n", "t", ":", " ", "a">>,
     <<"A9">>}

LineStreams == UNION {[1..n -> StreamLines] : n \in 0..MaxLines}

\* The bodies of a JSON response: documents, and one that is cut short.
JsonBodies ==
    {<<Quote>> \o t \o <<Quote>> :
        t \in {<<>>, <<"a">>, <<"C3", "A9">>, <<"a", "C3", "A9">>}}
    \cup {<<>>, <<Quote, "a">>}

Min(a, b) == IF a < b THEN a ELSE b

\* The body as the chunks of k bytes the streaming body is read in.
Chunks(body, k) ==
    [i \in 1..((Len(body) + k - 1) \div k) |->
        SubSeq(body, (i - 1) * k + 1, Min(i * k, Len(body)))]

ChunkStreams == {Chunks(b, k) : b \in JsonBodies, k \in 1..MaxChunkSize}

ClientInvoke ==
    \/ \E outcome \in {"no_arn", "client_error"} : InvokeReturns(outcome, "", <<>>)
    \/ \E frames \in LineStreams : InvokeReturns("response", "text/event-stream", frames)
    \/ \E frames \in ChunkStreams : InvokeReturns("response", "application/json", frames)
    \/ InvokeReturns("response", "text/plain", <<>>)

ClientNext ==
    \/ ClientInvoke
    \/ ReadLine
    \/ EndLines
    \/ ReadChunk
    \/ EndChunks

\* The body the runtime answers a finished run with: the returned string as
\* a JSON document; the error forms are not ASCII.
ResponseBody(res) ==
    <<Quote>> \o (IF res.prefix = "" THEN <<"a">> ELSE <<"C3", "A9", "a">>) \o <<Quote>>

\* The client's invocation comes back once the run has ended.
RuntimeResponds ==
    /\ pc \in {"DONE", "FAILED"}
    /\ \/ \E k \in 1..MaxChunkSize :
             InvokeReturns("response", "application/json", Chunks(ResponseBody(result), k))
       \/ InvokeReturns("response", "text/event-stream",
                        <<DataPrefix \o ResponseBody(result)>>)

\* The client's invocation fails before a run has started.
RuntimeInvocationFails ==
    /\ pc = "INIT"
    /\ \E outcome \in {"no_arn", "client_error"} : InvokeReturns(outcome, "", <<>>)

EndToEndNext ==
    \/ AgentNext
    \/ RuntimeResponds
    \/ RuntimeInvocationFails
    \/ ReadLine
    \/ EndLines
    \/ ReadChunk
    \/ EndChunks

----------------------------------------------------------------------------
(* The setup scripts and the .env file they share.  Each run of a script   *)
(* is a process of its own: load_dotenv() reads the file into an           *)
(* environment that has none of the keys, and the file exists (it is empty *)
(* at first), so that .env.example is never copied over it.  A value is a  *)
(* number; 0 stands for a key that is not in the file.                     *)

\* Most gateways created.
MaxGateways == 2

EnvKeys ==
    {"GATEWAY_ROLE_ARN", "RUNTIME_ROLE_ARN", "LAMBDA_ROLE_ARN",
     "COGNITO_POOL_ID", "M2M_CLIENT_ID", "M2M_CLIENT_SECRET", "COGNITO_DISCOVERY_URL",
     "RESOURCE_SERVER_ID", "LAMBDA_ARN", "GATEWAY_ID", "GATEWAY_URL",
     "IDENTITY_PROVIDER_NAME", "GATEWAY_SCOPE", "RUNTIME_ARN"}

\* set_key(".env", k, v)
set_key(e, k, v) == [e EXCEPT ![k] = v]

\* The keys of `required` for which os.environ.get is falsy.
missing_vars(required) == {k \in required : env[k] = 0}

Ran(name, outcome) == [script |-> name, outcome |-> outcome]

SetupInit ==
    /\ env = [k \in EnvKeys |-> 0]
    /\ gateways = <<>>
    /\ resources = {}
    /\ lastRun = Ran("", "")
    /\ provider_response = [t |-> "unset", name |-> ""]

\* create_iam_roles.py, main: the three roles are created (or found) and
\* their ARNs recorded; an exception of a creation ends the script.
create_iam_roles ==
    /\ \/ /\ resources' = resources \cup {"roles"}
          /\ env' = set_key(set_key(set_key(env, "GATEWAY_ROLE_ARN", 1),
                                    "RUNTIME_ROLE_ARN", 1), "LAMBDA_ROLE_ARN", 1)
          /\ lastRun' = Ran("create_iam_roles", "ok")
          /\ UNCHANGED <<gateways, provider_response>>
       \/ /\ lastRun' = Ran("create_iam_roles", "failed")
          /\ UNCHANGED <<env, gateways, resources, provider_response>>
    /\ UNCHANGED <<dispatcherVars, agentVars, clientVars>>

\* setup_cognito.py, create_cognito_m2m_setup: the pool, its domain and its
\* client are created and five keys recorded; a ClientError is raised again.
create_cognito_m2m_setup ==
    /\ \/ /\ resources' = resources \cup {"pool"}
          /\ env' = set_key(set_key(set_key(set_key(set_key(env,
                       "COGNITO_POOL_ID", 1), "M2M_CLIENT_ID", 1), "M2M_CLIENT_SECRET", 1),
                       "COGNITO_DISCOVERY_URL", 1), "RESOURCE_SERVER_ID", 1)
          /\ lastRun' = Ran("setup_cognito", "ok")
          /\ UNCHANGED <<gateways, provider_response>>
       \/ /\ lastRun' = Ran("setup_cognito", "failed")
          /\ UNCHANGED <<env, gateways, resources, provider_response>>
    /\ UNCHANGED <<dispatcherVars, agentVars, clientVars>>

\* create_lambda.py, main: without LAMBDA_ROLE_ARN the script returns; else
\* the function is created, or found when it exists, and its ARN recorded.
create_lambda ==
    /\ IF missing_vars({"LAMBDA_ROLE_ARN"}) # {}
       THEN /\ lastRun' = Ran("create_lambda", "missing")
            /\ UNCHANGED <<env, gateways, resources, provider_response>>
       ELSE \/ /\ resources' = resources \cup {"lambda"}
               /\ env' = set_key(env, "LAMBDA_ARN", 1)
               /\ lastRun' = Ran("create_lambda", "ok")
               /\ UNCHANGED <<gateways, provider_response>>
            \/ /\ lastRun' = Ran("create_lambda", "failed")
               /\ UNCHANGED <<env, gateways, resources, provider_response>>
    /\ UNCHANGED <<dispatcherVars, agentVars, clientVars>>

\* A mutant: the gateway is recorded as soon as it is created.
create_gateway_with_lambda_recorded_first(outcome) ==
    /\ lastRun' = Ran("create_gateway", outcome)
    /\ UNCHANGED <<resources, provider_response>>
    /\ CASE outcome = "create_failed" ->
              UNCHANGED <<env, gateways>>
         [] outcome = "bad_response" ->
              /\ Len(gateways) < MaxGateways
              /\ gateways' \in {gateways, Append(gateways, FALSE)}
              /\ UNCHANGED env
         [] outcome \in {"target_failed", "ok"} ->
              /\ Len(gateways) < MaxGateways
              /\ gateways' = Append(gateways, outcome = "ok")
              /\ env' = set_key(set_key(env, "GATEWAY_ID", Len(gateways) + 1),
                                "GATEWAY_URL", Len(gateways) + 1)

\* create_gateway.py, create_gateway_with_lambda.  "create_failed": line 23
\* raises.  "bad_response": the response lacks the id or the URL and line 34
\* raises, whether or not a gateway came to exist.  "target_failed": the
\* gateway exists and line 94 raises.  "ok": the target is registered and
\* lines 106-107 record the gateway, whose number is its id and its URL.
create_gateway_with_lambda(outcome) ==
    /\ lastRun' = Ran("create_gateway", outcome)
    /\ UNCHANGED <<resources, provider_response>>
    /\ CASE outcome = "create_failed" ->
              UNCHANGED <<env, gateways>>
         [] outcome = "bad_response" ->
              /\ Len(gateways) < MaxGateways
              /\ gateways' \in {gateways, Append(gateways, FALSE)}
              /\ UNCHANGED env
         [] outcome = "target_failed" ->
              /\ Len(gateways) < MaxGateways
              /\ gateways' = Append(gateways, FALSE)
              /\ UNCHANGED env
         [] outcome = "ok" ->
              /\ Len(gateways) < MaxGateways
              /\ gateways' = Append(gateways, TRUE)
              /\ env' = set_key(set_key(env, "GATEWAY_ID", Len(gateways) + 1),
                                "GATEWAY_URL", Len(gateways) + 1)

\* create_gateway.py, lines 116-140: with one of the five keys missing the
\* script exits; else it calls create_gateway_with_lambda.
create_gateway ==
    /\ IF missing_vars({"COGNITO_DISCOVERY_URL", "M2M_CLIENT_ID", "M2M_CLIENT_SECRET",
                        "GATEWAY_ROLE_ARN", "LAMBDA_ARN"}) # {}
       THEN /\ lastRun' = Ran("create_gateway", "missing")
            /\ UNCHANGED <<env, gateways, resources, provider_response>>
       ELSE \E outcome \in {"create_failed", "bad_response", "target_failed", "ok"} :
               create_gateway_with_lambda(outcome)
    /\ UNCHANGED <<dispatcherVars, agentVars, clientVars>>

\* The name main asks for (line 213), and another provider of the account.
provider_name == "agentcore-identity-for-gateway"
other_provider == "another-provider"

\* A provider record, None, and the value before any call returned.
Provider(name) == [t |-> "dict", name |-> name]
ProviderNone == [t |-> "none", name |-> ""]
ProviderUnset == [t |-> "unset", name |-> ""]

Returns(value) == [kind |-> "return", value |-> value]
Raises(exc) == [kind |-> "raise", value |-> ProviderUnset]

\* Lines 147-150: the first provider of the listed page that has the name;
\* when none has it the loop ends and the function ends without a return
\* statement, which returns None.
RECURSIVE FirstNamed(_, _)
FirstNamed(page, name) ==
    IF page = <<>> THEN ProviderNone
    ELSE IF page[1].name = name THEN page[1]
    ELSE FirstNamed(Tail(page), name)

\* create_oauth2_credential_provider, lines 110-156.  "created": line 133
\* returns the new provider's record.  "conflict": it raises
\* ConflictException and the providers are listed, `page` being the page the
\* list call answers with.  "list_error": the list call raises.
\* "create_error": line 133 raises another ClientError.
create_oauth2_credential_provider(name, outcome, page) ==
    CASE outcome = "created" -> Returns(Provider(name))
      [] outcome = "conflict" -> Returns(FirstNamed(page, name))
      [] outcome = "list_error" -> Raises("Exception")
      [] outcome = "create_error" -> Raises("ClientError")

\* The pages list_oauth2_credential_providers can answer with: the call is
\* paged, so the page need not hold every provider of the account.
ProviderPages ==
    {<<>>, <<Provider(other_provider)>>, <<Provider(provider_name)>>,
     <<Provider(other_provider), Provider(provider_name)>>}

\* Whether the service can answer the creation with this outcome: a new
\* provider is made when none of the name exists, a conflict needs one.
CanAnswer(outcome) ==
    CASE outcome = "created" -> "provider" \notin resources
      [] outcome \in {"conflict", "list_error"} -> "provider" \in resources
      [] OTHER -> TRUE

\* setup_outbound_auth.py, main and setup_outbound_auth: without GATEWAY_ID
\* the script returns; else the gateway and the Cognito client are read
\* ("read_error": one of these raises), the credential provider is created
\* and, whatever that call returned, two keys are recorded; an exception of
\* one of these steps is raised again.
setup_outbound_auth ==
    /\ IF missing_vars({"GATEWAY_ID"}) # {}
       THEN /\ lastRun' = Ran("setup_outbound_auth", "missing")
            /\ UNCHANGED <<env, gateways, resources, provider_response>>
       ELSE \/ /\ lastRun' = Ran("setup_outbound_auth", "failed")
               /\ UNCHANGED <<env, gateways, resources, provider_response>>
            \/ \E outcome \in {"created", "conflict", "list_error", "create_error"},
                  page \in ProviderPages :
                 /\ CanAnswer(outcome)
                 /\ IF create_oauth2_credential_provider(provider_name, outcome, page).kind
                        = "raise"
                    THEN /\ lastRun' = Ran("setup_outbound_auth", "failed")
                         /\ UNCHANGED <<env, gateways, resources, provider_response>>
                    ELSE /\ provider_response' =
                              create_oauth2_credential_provider(
                                  provider_name, outcome, page).value
                         /\ resources' = resources \cup {"provider"}
                         /\ env' = set_key(set_key(env, "IDENTITY_PROVIDER_NAME", 1),
                                           "GATEWAY_SCOPE", 1)
                         /\ lastRun' = Ran("setup_outbound_auth", "ok")
                         /\ UNCHANGED gateways
    /\ UNCHANGED <<dispatcherVars, agentVars, clientVars>>

\* A mutant: the runtime is deployed without the check of required_vars.
deploy_runtime_unchecked ==
    /\ \/ /\ resources' = resources \cup {"runtime"}
          /\ env' = set_key(env, "RUNTIME_ARN", 1)
          /\ lastRun' = Ran("deploy_runtime", "ok")
          /\ UNCHANGED <<gateways, provider_response>>
       \/ /\ lastRun' = Ran("deploy_runtime", "failed")
          /\ UNCHANGED <<env, gateways, resources, provider_response>>
    /\ UNCHANGED <<dispatcherVars, agentVars, clientVars>>

\* deploy_runtime.py, deploy_runtime: with one of required_vars missing the
\* script returns; else the runtime is configured and launched and its ARN
\* recorded; an exception of configure or launch ends the script.
deploy_runtime ==
    /\ IF missing_vars({"GATEWAY_URL", "RUNTIME_ROLE_ARN", "IDENTITY_PROVIDER_NAME"}) # {}
       THEN /\ lastRun' = Ran("deploy_runtime", "missing")
            /\ UNCHANGED <<env, gateways, resources, provider_response>>
       ELSE \/ /\ resources' = resources \cup {"runtime"}
               /\ env' = set_key(env, "RUNTIME_ARN", 1)
               /\ lastRun' = Ran("deploy_runtime", "ok")
               /\ UNCHANGED <<gateways, provider_response>>
            \/ /\ lastRun' = Ran("deploy_runtime", "failed")
               /\ UNCHANGED <<env, gateways, resources, provider_response>>
    /\ UNCHANGED <<dispatcherVars, agentVars, clientVars>>

\* One run of one script, in any order and any number of times.
SetupNext ==
    \/ create_iam_roles
    \/ create_cognito_m2m_setup
    \/ create_lambda
    \/ create_gateway
    \/ setup_outbound_auth
    \/ deploy_runtime

Init == DispatcherInit /\ AgentInit /\ ClientInit /\ SetupInit

SpecDispatcher == Init /\ [][DispatcherNext]_vars
SpecAgent == Init /\ [][AgentNext]_vars
\* The run is one sequential flow: a step that can be taken is taken.
FairSpecAgent == SpecAgent /\ WF_vars(AgentNext)
SpecClient == Init /\ [][ClientNext]_vars
SpecEndToEnd == Init /\ [][EndToEndNext]_vars
SpecSetup == Init /\ [][SetupNext]_vars

----------------------------------------------------------------------------
(* Properties of the dispatcher (SpecDispatcher).                          *)

\* The request in progress came with a str tool identifier in its context.
HasRawId == invoked /\ context.cc = "custom" /\ context.name.t = "str"

\* The delimiter stands at position i of s.
DelimiterAt(s, i) ==
    /\ i >= 1
    /\ i + 2 <= Len(s)
    /\ s[i] = "_" /\ s[i + 1] = "_" /\ s[i + 2] = "_"

HasDelimiter(s) == \E i \in 1..Len(s) : DelimiterAt(s, i)

\* What follows position i + 2 of s.
After(s, i) == [j \in 1..(Len(s) - (i + 2)) |-> s[j + i + 2]]

Registered == {PyStr(get_order_tool), PyStr(update_order_tool)}

\* C1: when the raw tool identifier contains ___, the resolved tool name is
\* what follows the first ___ (a___b___c gives b___c).
C1_NameAfterFirstDelimiter ==
    (HasRawId /\ HasDelimiter(context.name.s)) =>
        \E i \in 1..Len(context.name.s) :
            /\ DelimiterAt(context.name.s, i)
            /\ \A j \in 1..(i - 1) : ~DelimiterAt(context.name.s, j)
            /\ tool_name = PyStr(After(context.name.s, i))

C1_Witness ==
    /\ HasRawId
    /\ context.name.s = <<"a", "_", "_", "_", "b", "_", "_", "_", "c">>
    /\ tool_name = PyStr(<<"b", "_", "_", "_", "c">>)

\* C2: when the raw tool identifier contains no ___, the resolved tool name
\* is the identifier itself.
C2_NameUnchangedWithoutDelimiter ==
    (HasRawId /\ ~HasDelimiter(context.name.s)) => tool_name = PyStr(context.name.s)

C2_Witness ==
    /\ HasRawId
    /\ context.name.s = get_order_tool
    /\ tool_name = PyStr(get_order_tool)

\* The text <name> of the unknown-tool message.
NameText == IF tool_name.t = "str" THEN tool_name.s ELSE <<"N", "o", "n", "e">>

\* The tokens of {"error": "Unknown tool: <name>"}.
UnknownToolBody ==
    <<Tok("{"), StrTok(<<"e", "r", "r", "o", "r">>), Tok(":"),
      StrTok(<<"U", "n", "k", "n", "o", "w", "n", " ", "t", "o", "o", "l", ":", " ">>
             \o NameText),
      Tok("}")>>

\* C3: a resolved tool name that is not registered is answered with status
\* 400 and the body {"error": "Unknown tool: <name>"}, and no handler branch
\* runs.
C3_UnknownToolRejected ==
    (invoked /\ tool_name \notin Registered) =>
        /\ response.kind = "return"
        /\ response.statusCode = 400
        /\ response.body = UnknownToolBody
        /\ response.executed = <<>>

C3_Witness ==
    /\ HasRawId
    /\ context.name.s = <<"a", "_", "_", "_", "c">>
    /\ tool_name = PyStr(<<"c">>)
    /\ response.statusCode = 400

\* C4: no exception of a handler branch leaves lambda_handler: every
\* invocation returns an envelope.
C4_NoExceptionEscapes == invoked => response.kind = "return"

\* A direct invocation: the context carries no client context.
DirectInvocation == invoked /\ context.cc \in {"absent", "falsy"}

\* The handler branch that serves tool identifier raw.
BranchOf(raw) ==
    IF raw = get_order_tool THEN <<"get_order_tool">> ELSE <<"update_order_tool">>

NameOfBranch(h) == IF h = "get_order_tool" THEN get_order_tool ELSE update_order_tool

\* C5 as stated: a direct invocation without client context that names a
\* registered tool runs that tool's handler.
C5_DirectInvocationExecuted ==
    (DirectInvocation /\ PyStr(raw_tool_id) \in Registered) =>
        response.executed = BranchOf(raw_tool_id)

\* C5 as amended: a registered tool name that reaches the function in the
\* client context without a prefix runs that tool's handler, as the prefixed
\* identifier does; a direct invocation without client context resolves no
\* tool and is answered 400 "Unknown tool: None" with no handler run.
C5_BareNameExecuted ==
    /\ (HasRawId /\ PyStr(context.name.s) \in Registered) =>
            /\ tool_name = PyStr(context.name.s)
            /\ response.executed = BranchOf(context.name.s)
    /\ (HasRawId /\ \E i \in 1..Len(context.name.s) :
                        /\ DelimiterAt(context.name.s, i)
                        /\ \A j \in 1..(i - 1) : ~DelimiterAt(context.name.s, j)
                        /\ PyStr(After(context.name.s, i)) \in Registered) =>
            response.executed # <<>>
    /\ DirectInvocation =>
            /\ tool_name = PyNone
            /\ response.kind = "return"
            /\ response.statusCode = 400
            /\ response.body = UnknownToolBody
            /\ response.executed = <<>>

C5_Witness ==
    /\ DirectInvocation
    /\ raw_tool_id = get_order_tool
    /\ response.statusCode = 400
    /\ response.executed = <<>>

\* C6: an invocation runs at most one handler branch, at most once, and what
\* it returns is what that branch produced (the get branch answers status
\* "processing", the update branch "updated").
C6_AtMostOneHandler ==
    invoked =>
        /\ Len(response.executed) <= 1
        /\ (tool_name \in Registered) = (Len(response.executed) = 1)
        /\ response.executed # <<>> => tool_name = PyStr(NameOfBranch(response.executed[1]))
        /\ (response.executed # <<>> /\ response.kind = "return") =>
                /\ response.statusCode = 200
                /\ response.body[6] = StrTok(<<"s", "t", "a", "t", "u", "s">>)
                /\ response.body[8] =
                        IF response.executed[1] = "get_order_tool"
                        THEN StrTok(<<"p", "r", "o", "c", "e", "s", "s", "i", "n", "g">>)
                        ELSE StrTok(<<"u", "p", "d", "a", "t", "e", "d">>)

C6_Witness ==
    /\ invoked
    /\ tool_name = PyStr(update_order_tool)
    /\ response.executed = <<"update_order_tool">>
    /\ response.kind = "return"

\* The order id a dict event supplies, 'unknown' standing in for none.
SuppliedOrderId == IF event.has THEN event.orderId ELSE PyStr(<<"u", "n", "k", "n", "o", "w", "n">>)

ValueTok(v) ==
    CASE v.t = "str" -> StrTok(v.s)
      [] v.t = "int" -> IntTok(v.n)
      [] v.t = "none" -> Tok("null")

\* C7: get_order_tool, given arguments with an order id, answers 200 with a
\* body whose orderId is the supplied id and whose items list is not empty,
\* and answers the same when the same request is sent again.
C7_GetOrderDeterministic ==
    (invoked /\ tool_name = PyStr(get_order_tool) /\ event.t = "dict") =>
        /\ response.kind = "return"
        /\ response.statusCode = 200
        /\ Len(response.body) > 4
        /\ response.body[1] = Tok("{")
        /\ response.body[2] = StrTok(<<"o", "r", "d", "e", "r", "I", "d">>)
        /\ response.body[3] = Tok(":")
        /\ response.body[4] = ValueTok(SuppliedOrderId)
        /\ \E i \in 1..(Len(response.body) - 3) :
              /\ response.body[i] = StrTok(<<"i", "t", "e", "m", "s">>)
              /\ response.body[i + 1] = Tok(":")
              /\ response.body[i + 2] = Tok("[")
              /\ response.body[i + 3] # Tok("]")
        /\ replayed => response = previous

C7_Witness ==
    /\ replayed
    /\ tool_name = PyStr(get_order_tool)
    /\ event.has
    /\ event.orderId = PyStr(<<"1", "2", "3">>)
    /\ response.statusCode = 200
    /\ response = previous

----------------------------------------------------------------------------
(* Properties of the agent run (SpecAgent, FairSpecAgent).                 *)

\* C8: with a model that never stops asking for tools the run still ends,
\* in a failure that reports the bounded loop.
C8_EndlessModelTerminates ==
    [](((pc = "RESPONDING") /\ (script = Forever)) => <>(pc = "FAILED"))

\* C9: with a model that asks for N tool calls and then answers, the run
\* issues exactly N tool invocations and returns the answer.
C9_ExactlyNToolCalls ==
    /\ pc = "DONE" =>
            /\ script # Forever
            /\ toolCalls = script
            /\ requested = script
            /\ pending = 0
            /\ finalMessage.text \in FinalAnswers
            /\ result = Returned("", finalMessage.text)
    /\ (script # Forever) => toolCalls <= script

C9_Witness ==
    /\ pc = "DONE"
    /\ script = 2
    /\ toolCalls = 2
    /\ result = Returned("", "answer-2")

\* C10: a run whose discovery returned no tool, or whose connection failed,
\* ends FAILED with a failure message, and the model is never invoked with
\* an empty tool set.
C10_NoModelWithoutTools ==
    /\ modelInvoked => tools # {}
    /\ pc = "DONE" => tools # {}
    /\ result.text \in {"connect", "unauthorized"} =>
            (pc = "FAILED" /\ result.prefix # "")

----------------------------------------------------------------------------
(* Properties of the agent run's failure handling (SpecAgent).             *)

\* C11: a 401/403 of the gateway during a run is answered by exactly one
\* refresh of the credential and a retry: once the gateway has rejected the
\* run's token a second credential has been asked for, never a third, and
\* the loop does not go on with the rejected token.
C11_OneRefreshAndRetry ==
    /\ staleToken => tokenFetches = 2
    /\ tokenFetches <= 2

\* The failure class of what a failed run reports.
FailureClass(text) ==
    IF text \in {"token", "unauthorized"} THEN "auth"
    ELSE IF text \in {"connect", "discovery", "agent_init"} THEN "infra"
    ELSE "model"

\* C13: the error string of a failed run tells the failure class: the
\* authentication form is returned for authentication failures (credential
\* issuance, 401/403) and for no other failure.
C13_FormDistinguishesClasses ==
    pc = "FAILED" =>
        ((result.prefix = "AUTH_FAILED") <=> (FailureClass(result.text) = "auth"))

FailedToolResults == {"unknown_tool", "handler_error"}

\* C14: a tool call that comes back as an unknown-tool envelope or as a
\* handler failure hands that result to the model and leaves the run
\* RESPONDING, with nothing returned to the caller yet.
C14_ToolFailureDoesNotAbort ==
    [][((pending' < pending) /\ (lastToolStatus' \in FailedToolResults)) =>
            ((pc' = "RESPONDING") /\ (result' = NoResult))]_vars

\* A run that got an unknown-tool result went on to its final answer.
C14_Witness ==
    /\ pc = "DONE"
    /\ lastToolStatus = "unknown_tool"
    /\ result.text \in FinalAnswers

\* The order of the run's states; the session is open in CONNECTED, which
\* lies between the credential and the discovery.
StateOrder ==
    {<<"INIT", "AUTHENTICATED">>, <<"AUTHENTICATED", "CONNECTED">>,
     <<"CONNECTED", "TOOLS_DISCOVERED">>, <<"TOOLS_DISCOVERED", "RESPONDING">>,
     <<"RESPONDING", "DONE">>}

NonTerminal == {"INIT", "AUTHENTICATED", "CONNECTED", "TOOLS_DISCOVERED", "RESPONDING"}

\* The run can fail in its next step.
CanFail == ENABLED (AgentNext /\ pc' = "FAILED")

\* C16: a step of the run keeps its state, moves to the next state of the
\* order, or fails from a non-terminal state; the session is opened and
\* tools are listed only after a credential was asked for, the model is
\* invoked only after discovery, and DONE is entered only from RESPONDING;
\* and every non-terminal state between two steps of the run (no tool call
\* in flight) has a step to FAILED.
C16_StateOrder ==
    /\ []((pc \in NonTerminal /\ pending = 0) => CanFail)
    /\ [][/\ \/ pc' = pc
             \/ <<pc, pc'>> \in StateOrder
             \/ pc \in NonTerminal /\ pc' = "FAILED"
          /\ pc' \in {"CONNECTED", "TOOLS_DISCOVERED", "RESPONDING", "DONE"} =>
                 tokenFetches' >= 1
          /\ tools' # {} => pc' \in {"TOOLS_DISCOVERED", "RESPONDING", "DONE", "FAILED"}
          /\ modelInvoked' => pc \in {"RESPONDING", "DONE", "FAILED"}]_vars

\* A run that went through every state of the order.
C16_Witness ==
    /\ pc = "DONE"
    /\ tokenFetches = 1
    /\ tools # {}
    /\ modelInvoked

----------------------------------------------------------------------------
(* Registry and handlers (SpecDispatcher).                                 *)

\* What stands before position i of s.
Before(s, i) == [j \in 1..(i - 1) |-> s[j]]

EndsWithUnderscore(s) == Len(s) > 0 /\ s[Len(s)] = "_"

\* Every handler branch that ran is the branch of a declared tool.
HandlersAreDeclared ==
    (invoked /\ response.executed # <<>>) =>
        NameOfBranch(response.executed[1]) \in tool_schemas

\* C18 as stated: an identifier <prefix>___<name> with a declared tool name
\* and a prefix that does not contain ___ runs the handler of that tool, and
\* every handler branch is the branch of a declared tool.
C18_DeclaredToolsDispatched ==
    /\ HasRawId =>
          \A i \in 1..Len(context.name.s) :
              (/\ DelimiterAt(context.name.s, i)
               /\ ~HasDelimiter(Before(context.name.s, i))
               /\ After(context.name.s, i) \in tool_schemas) =>
                  /\ tool_name = PyStr(After(context.name.s, i))
                  /\ response.executed = BranchOf(After(context.name.s, i))
    /\ HandlersAreDeclared

\* C18 as amended: the same for a prefix that neither contains ___ nor ends
\* with an underscore.
C18_DeclaredToolsDispatchedCleanPrefix ==
    /\ HasRawId =>
          \A i \in 1..Len(context.name.s) :
              (/\ DelimiterAt(context.name.s, i)
               /\ ~HasDelimiter(Before(context.name.s, i))
               /\ ~EndsWithUnderscore(Before(context.name.s, i))
               /\ After(context.name.s, i) \in tool_schemas) =>
                  /\ tool_name = PyStr(After(context.name.s, i))
                  /\ response.executed = BranchOf(After(context.name.s, i))
    /\ HandlersAreDeclared

C18_Witness ==
    /\ HasRawId
    /\ context.name.s = TargetPrefix \o delimiter \o update_order_tool
    /\ tool_name = PyStr(update_order_tool)
    /\ response.executed = <<"update_order_tool">>

----------------------------------------------------------------------------
(* A run seen from the client (SpecEndToEnd).                              *)

ToolFailures == {"unknown_tool", "handler_error", "transport", "unauthorized"}

\* C15: no failure path ends in silence.  A failed run returns one of the
\* two error forms followed by the text of the exception; a failed tool call
\* (the tool name could not be extracted, the handler raised, the call did
\* not get through) is a tool result the model is given, inside a run that
\* is RESPONDING or has ended; and a client whose invocation or reading
\* failed has printed the error before it returned None, or has raised.
C15_NoFailureSwallowed ==
    /\ pc = "FAILED" =>
            /\ result.prefix \in {"AUTH_FAILED", "ERROR_OCCURRED"}
            /\ result.text # ""
    /\ result.prefix # "" => pc = "FAILED"
    /\ lastToolStatus \in ToolFailures =>
            /\ pc \in {"RESPONDING", "DONE", "FAILED"}
            /\ toolCalls > 0
            /\ modelInvoked
    /\ (cpc = "RETURNED" /\ clientResult.kind = "None") =>
            /\ printed # <<>>
            /\ printed[Len(printed)].tag \in {"ERROR_OCCURRED", "ERROR_MESSAGE"}
    /\ (cpc = "RETURNED" /\ contentType = "") =>
            clientResult.kind \in {"None", "raise"}

\* A failed run whose error string the client received and returned.
C15_Witness ==
    /\ pc = "FAILED"
    /\ result = Returned("AUTH_FAILED", "token")
    /\ cpc = "RETURNED"
    /\ clientResult = ClientResult("str", DecodeChars(ResponseBody(result)))

----------------------------------------------------------------------------
(* The client's reading of a response (SpecClient).                        *)

\* The payloads of the non-empty `data: ` lines, in their order.
RECURSIVE Payloads(_)
Payloads(lines) ==
    IF lines = <<>> THEN <<>>
    ELSE IF /\ Len(DecodeChars(lines[1])) >= 6
            /\ \A i \in 1..6 : DecodeChars(lines[1])[i] = DataPrefix[i]
         THEN <<[i \in 1..(Len(DecodeChars(lines[1])) - 6) |->
                    DecodeChars(lines[1])[i + 6]]>> \o Payloads(Tail(lines))
         ELSE Payloads(Tail(lines))

\* Every frame of the body that arrived is well-formed UTF-8 when the body
\* is taken as a whole.
WellFormed == Decodable(Concat(received))

\* C17: a result is returned only when the body has been read to its end;
\* the result of an event-stream response is the payloads of its `data: `
\* lines, in the order received; the result of a JSON response is the
\* document that the bytes of its chunks, put together in the order
\* received, hold.
C17_ReassembledInOrder ==
    (cpc = "RETURNED" /\ WellFormed) =>
        /\ contentType = "text/event-stream" =>
                /\ stream = <<>>
                /\ clientResult = ClientResult("str", Join(Payloads(received)))
        /\ (contentType = "application/json"
                /\ json_loads(DecodeChars(Concat(received))).ok) =>
                /\ stream = <<>>
                /\ clientResult =
                      ClientResult("json", json_loads(DecodeChars(Concat(received))).value)

----------------------------------------------------------------------------
(* The setup scripts (SpecSetup).                                          *)

Recorded(k) == env[k] # 0

\* The keys a script needs to find in the file before it acts.
Prerequisites(name) ==
    CASE name = "create_lambda" -> {"LAMBDA_ROLE_ARN"}
      [] name = "create_gateway" ->
            {"COGNITO_DISCOVERY_URL", "M2M_CLIENT_ID", "M2M_CLIENT_SECRET",
             "GATEWAY_ROLE_ARN", "LAMBDA_ARN"}
      [] name = "setup_outbound_auth" -> {"GATEWAY_ID"}
      [] name = "deploy_runtime" ->
            {"GATEWAY_URL", "RUNTIME_ROLE_ARN", "IDENTITY_PROVIDER_NAME"}
      [] OTHER -> {}

\* The keys a script writes.
Outputs(name) ==
    CASE name = "create_iam_roles" ->
            {"GATEWAY_ROLE_ARN", "RUNTIME_ROLE_ARN", "LAMBDA_ROLE_ARN"}
      [] name = "setup_cognito" ->
            {"COGNITO_POOL_ID", "M2M_CLIENT_ID", "M2M_CLIENT_SECRET",
             "COGNITO_DISCOVERY_URL", "RESOURCE_SERVER_ID"}
      [] name = "create_lambda" -> {"LAMBDA_ARN"}
      [] name = "create_gateway" -> {"GATEWAY_ID", "GATEWAY_URL"}
      [] name = "setup_outbound_auth" -> {"IDENTITY_PROVIDER_NAME", "GATEWAY_SCOPE"}
      [] name = "deploy_runtime" -> {"RUNTIME_ARN"}
      [] OTHER -> {}

SetupScripts ==
    {"create_iam_roles", "setup_cognito", "create_lambda", "create_gateway",
     "setup_outbound_auth", "deploy_runtime"}

\* C19: whatever scripts ran, in whatever order, a recorded output key of a
\* script has the script's prerequisite keys recorded beside it (RUNTIME_ARN
\* has GATEWAY_URL, RUNTIME_ROLE_ARN and IDENTITY_PROVIDER_NAME); a run of a
\* script writes its own output keys only, and a run that finds one of its
\* prerequisites missing changes neither the file nor the remote resources.
C19_BootstrapOrder ==
    /\ [](\A name \in SetupScripts :
            (\E k \in Outputs(name) : Recorded(k)) =>
                \A q \in Prerequisites(name) : Recorded(q))
    /\ [][/\ \A k \in EnvKeys : env'[k] # env[k] => k \in Outputs(lastRun'.script)
          /\ (\E q \in Prerequisites(lastRun'.script) : ~Recorded(q)) =>
                 /\ lastRun'.outcome = "missing"
                 /\ env' = env
                 /\ gateways' = gateways
                 /\ resources' = resources]_vars

\* Every script has run with success, the runtime's last.
C19_Witness ==
    /\ \A k \in EnvKeys : Recorded(k)
    /\ lastRun = Ran("deploy_runtime", "ok")
    /\ resources = {"roles", "pool", "lambda", "provider", "runtime"}

\* C20: the gateway recorded under GATEWAY_ID exists and has its target
\* registered, and GATEWAY_URL is recorded with it; a run of create_gateway
\* that does not end with the target registered leaves the file as it was,
\* and only a run that ends so writes the two keys.
C20_GatewayRecordedAfterTarget ==
    /\ [](Recorded("GATEWAY_ID") =>
            /\ env["GATEWAY_ID"] \in 1..Len(gateways)
            /\ gateways[env["GATEWAY_ID"]]
            /\ env["GATEWAY_URL"] = env["GATEWAY_ID"])
    /\ [][/\ (lastRun'.script = "create_gateway" /\ lastRun'.outcome # "ok") =>
                 env' = env
          /\ (env'["GATEWAY_ID"] # env["GATEWAY_ID"]
                 \/ env'["GATEWAY_URL"] # env["GATEWAY_URL"]) =>
                 /\ lastRun' = Ran("create_gateway", "ok")
                 /\ gateways' = Append(gateways, TRUE)
                 /\ env'["GATEWAY_ID"] = Len(gateways')]_vars

\* A first gateway was left without target and unrecorded, a second one is
\* recorded.
C20_Witness ==
    /\ gateways = <<FALSE, TRUE>>
    /\ env["GATEWAY_ID"] = 2
    /\ env["GATEWAY_URL"] = 2

\* C21: whatever create_oauth2_credential_provider returned, after a fresh
\* creation or after a ConflictException, is a provider record with the
\* requested name, so that IDENTITY_PROVIDER_NAME is in the file only
\* together with such a record.
C21_ProviderRecordReturned ==
    /\ provider_response.t # "unset" => provider_response = Provider(provider_name)
    /\ Recorded("IDENTITY_PROVIDER_NAME") => provider_response.t = "dict"

====
